---- MODULE Spec2Model ----
(***************************************************************************)
(* Model of the AppLife lifecycle core (src/src/index.ts): the @Controller *)
(* registry, registerController (recursive dependency resolution with the  *)
(* in-flight set), Dependency, AppLife.Start, and the @Module registry     *)
(* with AppLife.LoadModules.                                               *)
(*                                                                         *)
(* JavaScript runs one synchronous block at a time.  runStack is the       *)
(* synchronous call stack of Start() invocations (the head is executing),  *)
(* microtasks is the FIFO queue of promise reactions.  An async function   *)
(* gives up control at each await; its continuation is queued when the     *)
(* awaited promise settles.  User code (the code that declares             *)
(* controllers, calls Start and Dependency, and settles the promises the   *)
(* hooks returned) runs when nothing of the library is executing, or       *)
(* inside a constructor or hook the library has invoked.                   *)
(***************************************************************************)
EXTENDS Integers, Sequences, FiniteSets, TLC

\* ---------------------------------------------------------------- bounds
MaxStarts == 2
MaxLoadOrder == 1

Classes == {"A", "B", "C"}
Procs == 1..MaxStarts
\* the options object of @Controller: {} or {loadOrder: n}
ControllerOptions ==
  {[has |-> FALSE, loadOrder |-> 0]}
    \cup {[has |-> TRUE, loadOrder |-> n] : n \in 1..MaxLoadOrder}

NoClass == "-"
NoError == [kind |-> "none", cls |-> NoClass]
NoInstance == [cls |-> NoClass, n |-> 0]
NoCall == [op |-> "none", cls |-> NoClass, modules |-> <<>>, result |-> "none",
           value |-> NoInstance]

\* The classes are decorated (declared) in this order; a class may stay
\* undeclared, and a declaration may come after Start().
DeclOrder == <<"A", "B", "C">>

\* design:paramtypes of the three classes: the shapes of dependency graph,
\* with the dependency declared after its dependent and before it.
DepGraphs ==
  { [A |-> <<>>,         B |-> <<>>,    C |-> <<>>],
    [A |-> <<"B">>,      B |-> <<"C">>, C |-> <<>>],
    [A |-> <<"B", "C">>, B |-> <<>>,    C |-> <<>>],
    [A |-> <<"A">>,      B |-> <<>>,    C |-> <<>>],
    [A |-> <<"B">>,      B |-> <<"A">>, C |-> <<>>],
    [A |-> <<"B">>,      B |-> <<"A">>, C |-> <<"A">>],
    [A |-> <<"C", "B">>, B |-> <<"A">>, C |-> <<>>],
    [A |-> <<>>,         B |-> <<"A">>, C |-> <<"B">>] }

\* the classes decorated with @Module, and the controllers each one lists
Modules == {"M1", "M2"}
moduleControllers == [M1 |-> <<"B", "A">>, M2 |-> <<"C", "B">>]
\* the arguments LoadModules is called with
ModuleLists == {<<"M1">>, <<"M2">>, <<"M1", "M2">>, <<"M2", "M1">>}

\* the classes that carry an @OnInit and an @OnStart method
onInitMethod == {"A", "B"}
onStartMethod == {"A", "B"}

VARIABLES
  paramTypes,             \* class -> sequence of classes (reflect metadata)
  moduleRegistry,         \* module -> sequence of classes, for the registered modules
  controllerRegistry,     \* sequence of classes, in Map insertion order
  loadOrderMap,           \* class -> number, for the declared classes
  controllerInstances,    \* class -> instance, for the stored instances
  registeringControllers, \* the in-flight set
  started,
  startPc,                \* per Start() call: where the call is
  sortedControllers,      \* per Start() call: its local sorted list
  idx,                    \* per Start() call: loop position
  stack,                  \* per Start() call: registerController frames
  ret,                    \* per Start() call: outcome of the awaited promise
  startErr,               \* per Start() call: the error it rejected with
  startTask,              \* per Start() call, per class: the OnStart promise
  runStack,               \* Start() calls executing synchronously, head on top
  microtasks,             \* FIFO queue of promise reactions
  ctorLog,                \* per Start() call: constructors it invoked, in order
  initLog,                \* per Start() call: OnInit hooks it invoked, in order
  initDone,               \* classes whose OnInit hook has completed successfully
  startLog,               \* per Start() call: OnStart hooks it invoked, in order
  logs,                   \* what DebugLog has written
  lastCall                \* the call of Controller or Dependency just made, with its outcome

meta == <<paramTypes, moduleRegistry>>
core == <<controllerRegistry, loadOrderMap, controllerInstances,
          registeringControllers, started>>
calls == <<startPc, sortedControllers, idx, stack, ret, startErr, startTask>>
sched == <<runStack, microtasks>>
hist == <<ctorLog, initLog, initDone, startLog, logs>>
vars == <<meta, core, calls, sched, hist, lastCall>>

\* ------------------------------------------------------------- helpers
Declared == {controllerRegistry[k] : k \in 1..Len(controllerRegistry)}
HasInstance_Never(c) == FALSE
HasInstance(c) == c \in DOMAIN controllerInstances
Range(s) == {s[k] : k \in 1..Len(s)}
Occurrences(s, c) == Cardinality({k \in 1..Len(s) : s[k] = c})
RECURSIVE CountIn(_, _, _)
CountIn(log, c, n) ==
  IF n = 0 THEN 0 ELSE Occurrences(log[n], c) + CountIn(log, c, n - 1)
CtorCount(c) == CountIn(ctorLog, c, MaxStarts)
InitCount(c) == CountIn(initLog, c, MaxStarts)
StartCount(c) == CountIn(startLog, c, MaxStarts)

AppLifeError(kind, c) == [kind |-> kind, cls |-> c]
DebugLog(sev, msg, c, p) == logs \cup {[sev |-> sev, msg |-> msg, cls |-> c, p |-> p]}

Ok(inst) == [ok |-> TRUE, err |-> NoError, value |-> inst]
Thrown(e) == [ok |-> FALSE, err |-> e, value |-> NoInstance]
ResumeTask(p) == [kind |-> "resume", p |-> p, cls |-> NoClass]
CatchTask(p, c) == [kind |-> "catch", p |-> p, cls |-> c]

Top(p) == stack[p][Len(stack[p])]
Pop(s) == SubSeq(s, 1, Len(s) - 1)
Frame(c) == [cls |-> c, pc |-> "entry", i |-> 1, dependencies |-> <<>>,
             instance |-> NoInstance]
SetTop(p, f) == [stack EXCEPT ![p] = Pop(stack[p]) \o <<f>>]

Running(p) == IF runStack = <<>> THEN FALSE ELSE Head(runStack) = p
InHook(p) == IF stack[p] = <<>> THEN startPc[p] = "inStart"
             ELSE Top(p).pc \in {"inCtor", "inInit"}
\* User code is executing: at top level or in a reaction of its own, or
\* inside a constructor or hook that the library called.
UserCodeCanRun == IF runStack = <<>> THEN TRUE ELSE InHook(Head(runStack))

\* options.loadOrder ?? 0
LoadOrderOption(options) == IF options.has THEN options.loadOrder ELSE 0
LoadOrderOf(c) == IF c \in DOMAIN loadOrderMap THEN loadOrderMap[c] ELSE 0

\* Array.prototype.sort is stable: equal keys keep their Map insertion order.
SortInsert_Unstable(s, c) ==
  LET n == Cardinality({k \in 1..Len(s) : LoadOrderOf(s[k]) < LoadOrderOf(c)})
  IN SubSeq(s, 1, n) \o <<c>> \o SubSeq(s, n + 1, Len(s))
SortInsert(s, c) ==
  LET n == Cardinality({k \in 1..Len(s) : LoadOrderOf(s[k]) <= LoadOrderOf(c)})
  IN SubSeq(s, 1, n) \o <<c>> \o SubSeq(s, n + 1, Len(s))
RECURSIVE SortByLoadOrder(_)
SortByLoadOrder(s) ==
  IF s = <<>> THEN <<>>
  ELSE SortInsert(SortByLoadOrder(Pop(s)), s[Len(s)])

\* ---------------------------------------------------------------- Init
Init ==
  /\ paramTypes \in DepGraphs
  /\ moduleRegistry = <<>>
  /\ controllerRegistry = <<>>
  /\ loadOrderMap = <<>>
  /\ controllerInstances = <<>>
  /\ registeringControllers = {}
  /\ started = FALSE
  /\ startPc = [p \in Procs |-> "idle"]
  /\ sortedControllers = [p \in Procs |-> <<>>]
  /\ idx = [p \in Procs |-> 1]
  /\ stack = [p \in Procs |-> <<>>]
  /\ ret = [p \in Procs |-> Ok(NoInstance)]
  /\ startErr = [p \in Procs |-> NoError]
  /\ startTask = [p \in Procs |-> [c \in Classes |-> "none"]]
  /\ runStack = <<>>
  /\ microtasks = <<>>
  /\ ctorLog = [p \in Procs |-> <<>>]
  /\ initLog = [p \in Procs |-> <<>>]
  /\ initDone = {}
  /\ startLog = [p \in Procs |-> <<>>]
  /\ logs = {}
  /\ lastCall = NoCall

\* ------------------------------------------------- @Controller decorator
\* line 32: controllerRegistry.has(target)
AlreadyRegistered_Never(c) == FALSE
AlreadyRegistered(c) == c \in Declared

\* Map.set keeps the position of a key that is already there
MapSetKey(reg, c) == IF c \in Range(reg) THEN reg ELSE Append(reg, c)

Controller(c, options) ==
  /\ UserCodeCanRun
  /\ IF c \in Declared THEN TRUE
     ELSE c = DeclOrder[Len(controllerRegistry) + 1]
  /\ IF AlreadyRegistered(c)
       THEN /\ lastCall' = [NoCall EXCEPT !.op = "Controller", !.cls = c,
                                           !.result = "AlreadyRegistered"]
            /\ UNCHANGED <<controllerRegistry, loadOrderMap>>
       ELSE /\ controllerRegistry' = MapSetKey(controllerRegistry, c)
            /\ loadOrderMap' = (c :> LoadOrderOption(options)) @@ loadOrderMap
            /\ lastCall' = [NoCall EXCEPT !.op = "Controller", !.cls = c,
                                           !.result = "ok"]
  /\ UNCHANGED <<meta, controllerInstances, registeringControllers, started,
                 calls, sched, hist>>

\* ---------------------------------------------------------------- @Module
\* lines 63-70
Module(m) ==
  /\ UserCodeCanRun
  /\ IF m \in DOMAIN moduleRegistry
       THEN /\ lastCall' = [NoCall EXCEPT !.op = "Module", !.cls = m,
                                           !.result = "AlreadyRegistered"]
            /\ UNCHANGED moduleRegistry
       ELSE /\ moduleRegistry' = (m :> moduleControllers[m]) @@ moduleRegistry
            /\ lastCall' = [NoCall EXCEPT !.op = "Module", !.cls = m,
                                           !.result = "ok"]
  /\ UNCHANGED <<paramTypes, core, calls, sched, hist>>

\* ---------------------------------------------------- AppLife.LoadModules
\* lines 155-161: the first controller of the list that is not declared
NotRegistered(controllers) ==
  {k \in 1..Len(controllers) : controllers[k] \notin Declared}
FirstOf_Last(S) == CHOOSE k \in S : \A j \in S : j <= k
FirstOf(S) == CHOOSE k \in S : \A j \in S : k <= j

\* lines 149-162: the loop over the modules ends at the first throw
RECURSIVE LoadModulesResult(_)
LoadModulesResult(modules) ==
  IF modules = <<>> THEN [result |-> "ok", cls |-> NoClass]
  ELSE LET module == Head(modules) IN
    IF module \notin DOMAIN moduleRegistry
      THEN [result |-> "ModuleNotRegistered", cls |-> module]
    ELSE LET controllers == moduleRegistry[module] IN
      IF NotRegistered(controllers) # {}
        THEN [result |-> "ControllerNotRegistered",
              cls |-> controllers[FirstOf(NotRegistered(controllers))]]
      ELSE LoadModulesResult(Tail(modules))

LoadModules(modules) ==
  /\ UserCodeCanRun
  /\ lastCall' = [NoCall EXCEPT !.op = "LoadModules", !.modules = modules,
                                 !.result = LoadModulesResult(modules).result,
                                 !.cls = LoadModulesResult(modules).cls]
  /\ UNCHANGED <<meta, core, calls, sched, hist>>

\* ------------------------------------------------------------ Dependency
DependencyResult_NoStartedCheck(c) ==
  IF ~HasInstance(c) THEN [result |-> "NotRegistered", value |-> NoInstance]
  ELSE [result |-> "ok", value |-> controllerInstances[c]]
DependencyResult(c) ==
  IF ~started THEN [result |-> "NotStarted", value |-> NoInstance]
  ELSE IF ~HasInstance(c) THEN [result |-> "NotRegistered", value |-> NoInstance]
  ELSE [result |-> "ok", value |-> controllerInstances[c]]

\* a lookup that would construct the missing controller on demand
Dependency_Lazy(c) ==
  /\ UserCodeCanRun
  /\ lastCall' = [NoCall EXCEPT !.op = "Dependency", !.cls = c,
                                 !.result = DependencyResult(c).result,
                                 !.value = DependencyResult(c).value]
  /\ controllerInstances' =
       IF started /\ c \in Declared /\ ~HasInstance(c) /\ CtorCount(c) = 0
         THEN (c :> [cls |-> c, n |-> 1]) @@ controllerInstances
         ELSE controllerInstances
  /\ UNCHANGED <<meta, controllerRegistry, loadOrderMap, registeringControllers,
                 started, calls, sched, hist>>
Dependency(c) ==
  /\ UserCodeCanRun
  /\ lastCall' = [NoCall EXCEPT !.op = "Dependency", !.cls = c,
                                 !.result = DependencyResult(c).result,
                                 !.value = DependencyResult(c).value]
  /\ UNCHANGED <<meta, core, calls, sched, hist>>

\* ---------------------------------------------------- registerController
\* The frame on top of the stack settles its promise: the frame is gone, the
\* awaiting caller's continuation is queued, and the call gives up control.
Settle(p, r) ==
  /\ stack' = [stack EXCEPT ![p] = Pop(stack[p])]
  /\ ret' = [ret EXCEPT ![p] = r]
  /\ microtasks' = Append(microtasks, ResumeTask(p))
  /\ runStack' = IF Running(p) THEN Tail(runStack) ELSE runStack

\* line 90: what meeting an in-flight class does
CycleResult_Tolerated == Ok(NoInstance)
CycleResult == Thrown(AppLifeError("CyclicDependency", NoClass))

\* lines 84-92: cached instance, cycle check, mark in-flight
RegisterEntry(p) ==
  /\ Running(p) /\ stack[p] # <<>> /\ Top(p).pc = "entry"
  /\ LET c == Top(p).cls IN
       IF HasInstance(c)
         THEN /\ Settle(p, Ok(controllerInstances[c]))
              /\ UNCHANGED registeringControllers
       ELSE IF c \in registeringControllers
         THEN /\ Settle(p, CycleResult)
              /\ UNCHANGED registeringControllers
       ELSE /\ registeringControllers' = registeringControllers \cup {c}
            /\ stack' = SetTop(p, [Top(p) EXCEPT !.pc = "deps"])
            /\ UNCHANGED <<ret, sched>>
  /\ UNCHANGED <<meta, controllerRegistry, loadOrderMap, controllerInstances,
                 started, startPc, sortedControllers, idx, startErr, startTask,
                 hist>>
  /\ lastCall' = NoCall

\* line 99: the loop over paramTypes has handled every dependency
DepsResolved_Skip(f) == TRUE
DepsResolved(f) == f.i > Len(paramTypes[f.cls])

\* line 100: controllerRegistry.has(dep)
DependencyRegistered_Always(dep) == TRUE
DependencyRegistered(dep) == dep \in Declared

\* lines 99-112: the dependency loop, then the constructor call
RegisterDeps(p) ==
  /\ Running(p) /\ stack[p] # <<>> /\ Top(p).pc = "deps"
  /\ LET f == Top(p)
         c == f.cls
     IN IF ~DepsResolved(f)
          THEN LET dep == paramTypes[c][f.i] IN
                 IF ~DependencyRegistered(dep)
                   THEN /\ Settle(p, Thrown(AppLifeError("DependencyNotRegistered", dep)))
                        /\ UNCHANGED ctorLog
                   ELSE /\ stack' = [stack EXCEPT ![p] =
                               Pop(stack[p]) \o <<[f EXCEPT !.pc = "awaitDep"]>>
                                             \o <<Frame(dep)>>]
                        /\ UNCHANGED <<ret, sched, ctorLog>>
          ELSE /\ stack' = SetTop(p, [f EXCEPT !.pc = "inCtor",
                              !.instance = [cls |-> c, n |-> CtorCount(c) + 1]])
               /\ ctorLog' = [ctorLog EXCEPT ![p] = Append(ctorLog[p], c)]
               /\ UNCHANGED <<ret, sched>>
  /\ UNCHANGED <<meta, core, startPc, sortedControllers, idx, startErr,
                 startTask, initLog, initDone, startLog, logs>>
  /\ lastCall' = NoCall

\* lines 129-131 as a step of the frame on top of p's stack
StoreAndReturn(p) ==
  /\ controllerInstances' = (Top(p).cls :> Top(p).instance) @@ controllerInstances
  /\ registeringControllers' = registeringControllers \ {Top(p).cls}
  /\ Settle(p, Ok(Top(p).instance))

\* lines 113-116: the catch block of the constructor call rethrows
ConstructorThrown_Swallowed(c) == Ok(NoInstance)
ConstructorThrown(c) == Thrown(AppLifeError("ConstructorFailed", c))

\* lines 113-116: the catch block leaves the in-flight set as it is
InFlightAfterThrow_Cleaned(c) == registeringControllers \ {c}
InFlightAfterThrow(c) == registeringControllers

\* lines 110-122: the constructor returns or throws; then OnInit is called,
\* or, when the class has none, the instance is stored (lines 129-131)
ConstructorReturns(p, ok) ==
  /\ Running(p) /\ stack[p] # <<>> /\ Top(p).pc = "inCtor"
  /\ LET c == Top(p).cls IN
       IF ~ok
         THEN /\ logs' = DebugLog("error", "Error in constructor", c, p)
              /\ Settle(p, ConstructorThrown(c))
              /\ registeringControllers' = InFlightAfterThrow(c)
              /\ UNCHANGED <<controllerInstances, initLog>>
       ELSE IF c \in onInitMethod
         THEN /\ stack' = SetTop(p, [Top(p) EXCEPT !.pc = "inInit"])
              /\ initLog' = [initLog EXCEPT ![p] = Append(initLog[p], c)]
              /\ UNCHANGED <<controllerInstances, registeringControllers, ret,
                             sched, logs>>
       ELSE /\ StoreAndReturn(p)
            /\ UNCHANGED <<initLog, logs>>
  /\ UNCHANGED <<meta, controllerRegistry, loadOrderMap, started, startPc,
                 sortedControllers, idx, startErr, startTask, ctorLog, initDone,
                 startLog>>
  /\ lastCall' = NoCall

\* line 122: the synchronous part of the OnInit hook throws, returns a value
\* or a settled promise, or returns a promise that is still pending
OnInitReturns(p, outcome) ==
  /\ Running(p) /\ stack[p] # <<>> /\ Top(p).pc = "inInit"
  /\ LET c == Top(p).cls IN
       CASE outcome = "throw" ->
              /\ logs' = DebugLog("error", "Error in OnInit", c, p)
              /\ Settle(p, Thrown(AppLifeError("OnInitFailed", c)))
              /\ UNCHANGED initDone
         [] outcome = "value" ->
              /\ stack' = SetTop(p, [Top(p) EXCEPT !.pc = "awaitInit"])
              /\ ret' = [ret EXCEPT ![p] = Ok(NoInstance)]
              /\ microtasks' = Append(microtasks, ResumeTask(p))
              /\ runStack' = Tail(runStack)
              /\ initDone' = initDone \cup {c}
              /\ UNCHANGED logs
         [] outcome = "pending" ->
              /\ stack' = SetTop(p, [Top(p) EXCEPT !.pc = "initPending"])
              /\ runStack' = Tail(runStack)
              /\ UNCHANGED <<ret, microtasks, logs, initDone>>
  /\ UNCHANGED <<meta, core, startPc, sortedControllers, idx, startErr,
                 startTask, ctorLog, initLog, startLog>>
  /\ lastCall' = NoCall

\* the promise an OnInit hook returned is resolved or rejected by user code
OnInitSettles(p, ok) ==
  /\ UserCodeCanRun
  /\ stack[p] # <<>> /\ Top(p).pc = "initPending"
  /\ stack' = SetTop(p, [Top(p) EXCEPT !.pc = "awaitInit"])
  /\ ret' = [ret EXCEPT ![p] =
               IF ok THEN Ok(NoInstance)
               ELSE Thrown(AppLifeError("OnInitFailed", Top(p).cls))]
  /\ initDone' = IF ok THEN initDone \cup {Top(p).cls} ELSE initDone
  /\ microtasks' = Append(microtasks, ResumeTask(p))
  /\ UNCHANGED <<meta, core, startPc, sortedControllers, idx, startErr,
                 startTask, runStack, ctorLog, initLog, startLog, logs>>
  /\ lastCall' = NoCall

NextTask(p) ==
  IF runStack = <<>> /\ microtasks # <<>>
    THEN Head(microtasks) = ResumeTask(p) ELSE FALSE

\* lines 122-131: the continuation after `await instance[onInitMethod]()`
ResumeAfterOnInit(p) ==
  /\ NextTask(p) /\ stack[p] # <<>> /\ Top(p).pc = "awaitInit"
  /\ IF ret[p].ok
       THEN /\ controllerInstances' =
                 (Top(p).cls :> Top(p).instance) @@ controllerInstances
            /\ registeringControllers' = registeringControllers \ {Top(p).cls}
            /\ ret' = [ret EXCEPT ![p] = Ok(Top(p).instance)]
            /\ UNCHANGED logs
       ELSE /\ logs' = DebugLog("error", "Error in OnInit", Top(p).cls, p)
            /\ UNCHANGED <<controllerInstances, registeringControllers, ret>>
  /\ stack' = [stack EXCEPT ![p] = Pop(stack[p])]
  /\ microtasks' = Append(Tail(microtasks), ResumeTask(p))
  /\ UNCHANGED <<meta, controllerRegistry, loadOrderMap, started, startPc,
                 sortedControllers, idx, startErr, startTask, runStack,
                 ctorLog, initLog, initDone, startLog>>
  /\ lastCall' = NoCall

\* line 105: awaiting the rejected promise of a dependency throws
DependencyFailed_Ignored(r) == FALSE
DependencyFailed(r) == ~r.ok

\* lines 105-106: the continuation after `await registerController(dep)`
ResumeAfterDependency(p) ==
  /\ NextTask(p) /\ stack[p] # <<>> /\ Top(p).pc = "awaitDep"
  /\ IF ~DependencyFailed(ret[p])
       THEN /\ stack' = SetTop(p, [Top(p) EXCEPT !.pc = "deps", !.i = @ + 1,
                              !.dependencies = Append(@, ret[p].value)])
            /\ microtasks' = Tail(microtasks)
            /\ runStack' = <<p>>
       ELSE /\ stack' = [stack EXCEPT ![p] = Pop(stack[p])]
            /\ microtasks' = Append(Tail(microtasks), ResumeTask(p))
            /\ UNCHANGED runStack
  /\ UNCHANGED <<meta, core, startPc, sortedControllers, idx, ret, startErr,
                 startTask, hist>>
  /\ lastCall' = NoCall

\* ----------------------------------------------------------- AppLife.Start
Settled(t) == t \in {"none", "resolved", "caught"}
\* line 199: Promise.all over the caught promises of the hooks
AllSettled_NoWait(tasks) == TRUE
AllSettled(tasks) == \A c \in Classes : Settled(tasks[c])

\* lines 167-176: a call of Start() by user code; calls are numbered in the
\* order they are made
Start(p) ==
  /\ UserCodeCanRun
  /\ startPc[p] = "idle"
  /\ \A q \in Procs : q < p => startPc[q] # "idle"
  /\ started' = TRUE
  /\ logs' = IF Len(controllerRegistry) = 0
               THEN DebugLog("warn", "No controllers registered", NoClass, p)
               ELSE logs
  /\ sortedControllers' = [sortedControllers EXCEPT ![p] =
                             SortByLoadOrder(controllerRegistry)]
  /\ startPc' = [startPc EXCEPT ![p] = "loop1"]
  /\ idx' = [idx EXCEPT ![p] = 1]
  /\ runStack' = <<p>> \o runStack
  /\ UNCHANGED <<meta, controllerRegistry, loadOrderMap, controllerInstances,
                 registeringControllers, stack, ret, startErr, startTask,
                 microtasks, ctorLog, initLog, initDone,
                 startLog>>
  /\ lastCall' = NoCall

\* line 179: the first loop has gone through all of sortedControllers
RegistrationDone_AfterFirst(p) == idx[p] > 1 \/ idx[p] > Len(sortedControllers[p])
RegistrationDone(p) == idx[p] > Len(sortedControllers[p])

\* lines 179-180: the next iteration of the first loop calls
\* registerController; after the last one the second loop begins
StartRegisterNext(p) ==
  /\ Running(p) /\ startPc[p] = "loop1" /\ stack[p] = <<>>
  /\ IF ~RegistrationDone(p)
       THEN /\ stack' = [stack EXCEPT ![p] = <<Frame(sortedControllers[p][idx[p]])>>]
            /\ startPc' = [startPc EXCEPT ![p] = "await1"]
            /\ UNCHANGED idx
       ELSE /\ startPc' = [startPc EXCEPT ![p] = "loop2"]
            /\ idx' = [idx EXCEPT ![p] = 1]
            /\ UNCHANGED stack
  /\ UNCHANGED <<meta, core, sortedControllers, ret, startErr, startTask,
                 sched, hist>>
  /\ lastCall' = NoCall

\* line 180: awaiting a rejected promise throws out of Start
Rejected_Ignored(r) == FALSE
Rejected(r) == ~r.ok

\* line 180: the continuation after `await registerController(ControllerClass)`
ResumeStartLoop(p) ==
  /\ NextTask(p) /\ stack[p] = <<>> /\ startPc[p] = "await1"
  /\ microtasks' = Tail(microtasks)
  /\ IF ~Rejected(ret[p])
       THEN /\ idx' = [idx EXCEPT ![p] = @ + 1]
            /\ startPc' = [startPc EXCEPT ![p] = "loop1"]
            /\ runStack' = <<p>>
            /\ UNCHANGED startErr
       ELSE /\ startPc' = [startPc EXCEPT ![p] = "failed"]
            /\ startErr' = [startErr EXCEPT ![p] = ret[p].err]
            /\ UNCHANGED <<idx, runStack>>
  /\ UNCHANGED <<meta, core, sortedControllers, stack, ret, startTask, hist>>
  /\ lastCall' = NoCall

\* lines 185-199: the second loop calls the next OnStart hook inside a
\* promise executor; after the last one the call awaits Promise.all
StartHooksNext(p) ==
  /\ Running(p) /\ startPc[p] = "loop2"
  /\ IF idx[p] <= Len(sortedControllers[p])
       THEN LET c == sortedControllers[p][idx[p]] IN
              IF c \in onStartMethod
                THEN /\ startTask' = [startTask EXCEPT ![p][c] = "running"]
                     /\ startLog' = [startLog EXCEPT ![p] = Append(startLog[p], c)]
                     /\ startPc' = [startPc EXCEPT ![p] = "inStart"]
                     /\ UNCHANGED <<idx, sched>>
                ELSE /\ idx' = [idx EXCEPT ![p] = @ + 1]
                     /\ UNCHANGED <<startTask, startLog, startPc, sched>>
       ELSE /\ startPc' = [startPc EXCEPT ![p] = "awaitAll"]
            /\ runStack' = Tail(runStack)
            /\ microtasks' = IF AllSettled(startTask[p])
                               THEN Append(microtasks, ResumeTask(p))
                               ELSE microtasks
            /\ UNCHANGED <<idx, startTask, startLog>>
  /\ UNCHANGED <<meta, core, sortedControllers, stack, ret, startErr, ctorLog,
                 initLog, initDone, logs>>
  /\ lastCall' = NoCall

\* lines 189-194: the promise of the hook is pushed, not awaited: the loop
\* goes on whatever the hook returned
AfterOnStart_Awaited(outcome) == IF outcome = "pending" THEN "awaitAll" ELSE "loop2"
AfterOnStart(outcome) == "loop2"

\* lines 189-193: the synchronous part of the OnStart hook throws (the
\* executor's promise is rejected and its catch reaction is queued), returns
\* a value, or returns a promise that is still pending
OnStartReturns(p, outcome) ==
  /\ Running(p) /\ startPc[p] = "inStart"
  /\ LET c == sortedControllers[p][idx[p]] IN
       /\ startTask' = [startTask EXCEPT ![p][c] =
             CASE outcome = "throw" -> "rejected"
               [] outcome = "value" -> "resolved"
               [] outcome = "pending" -> "pending"]
       /\ microtasks' = IF outcome = "throw"
                          THEN Append(microtasks, CatchTask(p, c))
                          ELSE microtasks
  /\ startPc' = [startPc EXCEPT ![p] = AfterOnStart(outcome)]
  /\ idx' = [idx EXCEPT ![p] = @ + 1]
  /\ UNCHANGED <<meta, core, sortedControllers, stack, ret, startErr, runStack,
                 hist>>
  /\ lastCall' = NoCall

\* Promise.all settles when the last promise does: the continuation of
\* `await Promise.all(startPromises)` is queued
JoinAll_Never(p, tasks, queue) == queue
JoinAll(p, tasks, queue) ==
  IF startPc[p] = "awaitAll" /\ AllSettled(tasks)
    THEN Append(queue, ResumeTask(p)) ELSE queue

\* the promise an OnStart hook returned is resolved or rejected by user code
OnStartSettles(p, c, ok) ==
  /\ UserCodeCanRun
  /\ startTask[p][c] = "pending"
  /\ LET tasks == [startTask[p] EXCEPT ![c] = IF ok THEN "resolved" ELSE "rejected"] IN
       /\ startTask' = [startTask EXCEPT ![p] = tasks]
       /\ microtasks' = IF ok THEN JoinAll(p, tasks, microtasks)
                        ELSE Append(microtasks, CatchTask(p, c))
  /\ UNCHANGED <<meta, core, startPc, sortedControllers, idx, stack, ret,
                 startErr, runStack, hist>>
  /\ lastCall' = NoCall

\* line 192: the catch reaction writes a warning
CaughtLog_Silent(c, p) == logs
CaughtLog(c, p) == DebugLog("warn", "Error in OnStart", c, p)

\* lines 191-193: the catch reaction of a rejected OnStart promise
CatchOnStart(p, c) ==
  /\ runStack = <<>> /\ microtasks # <<>>
  /\ Head(microtasks) = CatchTask(p, c)
  /\ logs' = CaughtLog(c, p)
  /\ LET tasks == [startTask[p] EXCEPT ![c] = "caught"] IN
       /\ startTask' = [startTask EXCEPT ![p] = tasks]
       /\ microtasks' = JoinAll(p, tasks, Tail(microtasks))
  /\ UNCHANGED <<meta, core, startPc, sortedControllers, idx, stack, ret,
                 startErr, runStack, ctorLog, initLog, initDone,
                 startLog>>
  /\ lastCall' = NoCall

\* lines 199-200: the continuation after `await Promise.all(...)`: Start returns
ResumeStartDone(p) ==
  /\ NextTask(p) /\ stack[p] = <<>> /\ startPc[p] = "awaitAll"
  /\ microtasks' = Tail(microtasks)
  /\ startPc' = [startPc EXCEPT ![p] = "done"]
  /\ UNCHANGED <<meta, core, sortedControllers, idx, stack, ret, startErr,
                 startTask, runStack, hist>>
  /\ lastCall' = NoCall

\* ------------------------------------------------------------------ Next
Next ==
  \/ \E c \in Classes, options \in ControllerOptions : Controller(c, options)
  \/ \E c \in Classes : Dependency(c)
  \/ \E p \in Procs : Start(p)
  \/ \E p \in Procs : StartRegisterNext(p)
  \/ \E p \in Procs : RegisterEntry(p)
  \/ \E p \in Procs : RegisterDeps(p)
  \/ \E p \in Procs, ok \in BOOLEAN : ConstructorReturns(p, ok)
  \/ \E p \in Procs, o \in {"throw", "value", "pending"} : OnInitReturns(p, o)
  \/ \E p \in Procs, ok \in BOOLEAN : OnInitSettles(p, ok)
  \/ \E p \in Procs : ResumeAfterOnInit(p)
  \/ \E p \in Procs : ResumeAfterDependency(p)
  \/ \E p \in Procs : ResumeStartLoop(p)
  \/ \E p \in Procs : StartHooksNext(p)
  \/ \E p \in Procs, o \in {"throw", "value", "pending"} : OnStartReturns(p, o)
  \/ \E p \in Procs, c \in Classes, ok \in BOOLEAN : OnStartSettles(p, c, ok)
  \/ \E p \in Procs, c \in Classes : CatchOnStart(p, c)
  \/ \E p \in Procs : ResumeStartDone(p)

Spec == Init /\ [][Next]_vars

\* the program with its modules: @Module and AppLife.LoadModules as well
NextModules ==
  \/ Next
  \/ \E m \in Modules : Module(m)
  \/ \E modules \in ModuleLists : LoadModules(modules)

\* its controllers form the chain A -> B -> C
InitModules == Init /\ paramTypes.A = <<"B">> /\ paramTypes.B = <<"C">>

SpecModules == InitModules /\ [][NextModules]_vars

TypeOK ==
  /\ Declared \subseteq Classes
  /\ DOMAIN controllerInstances \subseteq Classes
  /\ \A p \in Procs : startPc[p] \in {"idle", "loop1", "await1", "loop2",
                                       "inStart", "awaitAll", "done", "failed"}

\* =================================================================
\* Properties
\* =================================================================
StartedCalls == {p \in Procs : startPc[p] # "idle"}
InStartPhase(p) == startPc[p] \in {"loop2", "inStart", "awaitAll", "done"}
Invoked(p) == {c \in Classes : startTask[p][c] # "none"}
ErrorLogged(p) == {e \in logs : e.p = p /\ e.sev = "error"}
Last(s) == s[Len(s)]
DeclIndex(c) == CHOOSE k \in 1..Len(controllerRegistry) : controllerRegistry[k] = c
DependsOn(a, b) == b \in Range(paramTypes[a])
Initialized(c) ==
  HasInstance(c) /\ CtorCount(c) > 0 /\ (c \in onInitMethod => c \in initDone)

\* the classes a call has entered at the top level of its first loop
EntriesReached(p) ==
  {sortedControllers[p][k] : k \in 1..(IF idx[p] <= Len(sortedControllers[p])
                                        THEN idx[p] ELSE Len(sortedControllers[p]))}
RECURSIVE DepClosure(_)
DepClosure(S) ==
  LET T == S \cup {b \in Classes : \E a \in S : DependsOn(a, b)}
  IN IF T = S THEN S ELSE DepClosure(T)

\* One call of Start() in a program whose controllers are all declared
\* before it, with their dependencies, whose constructors and OnInit hooks do
\* not fail, and whose hooks return or settle the promise they returned.
DependenciesDeclared == \A c \in Declared : Range(paramTypes[c]) \subseteq Declared
InitSingleStart ==
  /\ Init
  /\ \A c \in Classes : c \notin DepClosure(Range(paramTypes[c]))
\* the steps of the call itself and of the hooks it has invoked
StepSingleStart ==
  \/ StartRegisterNext(1)
  \/ RegisterEntry(1)
  \/ RegisterDeps(1)
  \/ ConstructorReturns(1, TRUE)
  \/ \E o \in {"value", "pending"} : OnInitReturns(1, o)
  \/ OnInitSettles(1, TRUE)
  \/ ResumeAfterOnInit(1)
  \/ ResumeAfterDependency(1)
  \/ ResumeStartLoop(1)
  \/ StartHooksNext(1)
  \/ \E o \in {"throw", "value", "pending"} : OnStartReturns(1, o)
  \/ \E c \in Classes, ok \in BOOLEAN : OnStartSettles(1, c, ok)
  \/ \E c \in Classes : CatchOnStart(1, c)
  \/ ResumeStartDone(1)
NextSingleStart ==
  \/ \E c \in Classes, options \in ControllerOptions :
       ~started /\ Controller(c, options)
  \/ DependenciesDeclared /\ Start(1)
  \/ StepSingleStart

\* the event loop runs every queued reaction, and every hook ends
SpecSingleStart ==
  InitSingleStart /\ [][NextSingleStart]_vars /\ WF_vars(StepSingleStart)

\* C1: whenever the constructor of A has been invoked, every constructor
\* dependency B of A had already been constructed, had completed its OnInit
\* hook and was stored in the instance table, whatever the loadOrder values;
\* the constructor receives exactly the stored instances.
C1_DependenciesInitializedFirst ==
  /\ \A a \in Classes : CtorCount(a) > 0 =>
       \A k \in 1..Len(paramTypes[a]) : Initialized(paramTypes[a][k])
  /\ \A p \in Procs : \A k \in 1..Len(stack[p]) :
       stack[p][k].pc = "inCtor" =>
         LET a == stack[p][k].cls IN
           /\ Len(stack[p][k].dependencies) = Len(paramTypes[a])
           /\ \A j \in 1..Len(paramTypes[a]) :
                IF HasInstance(paramTypes[a][j])
                  THEN stack[p][k].dependencies[j] = controllerInstances[paramTypes[a][j]]
                  ELSE FALSE

\* a dependent with the lower loadOrder has been constructed after its
\* dependency, which has an OnInit hook
C1_Witness ==
  \E a \in Declared, b \in Declared :
    /\ a # b /\ DependsOn(a, b) /\ b \in onInitMethod
    /\ LoadOrderOf(a) < LoadOrderOf(b)
    /\ CtorCount(a) > 0

SelfOrMutualCycle(c, D) ==
  /\ c \in D
  /\ \/ DependsOn(c, c)
     \/ \E d \in D : DependsOn(c, d) /\ DependsOn(d, c)
HasCycle(p) ==
  \E c \in Range(sortedControllers[p]) :
    SelfOrMutualCycle(c, Range(sortedControllers[p]))
CycleMembersUntouched ==
  \A c \in Classes : SelfOrMutualCycle(c, Declared) =>
    CtorCount(c) = 0 /\ ~HasInstance(c)

\* C2 as stated: with a self-cycle or a mutual cycle among the declared
\* controllers, a Start() that has ended has failed with the
\* cyclic-dependency error, and no member of a cycle is constructed or stored.
C2_AlwaysCyclicError ==
  /\ \A p \in Procs : HasCycle(p) /\ startPc[p] \in {"done", "failed"} =>
       startPc[p] = "failed" /\ startErr[p].kind = "CyclicDependency"
  /\ CycleMembersUntouched

\* C2 amended: with a self-cycle or a mutual cycle among the declared
\* controllers, Start() never gets to its OnStart phase and never completes
\* normally; when it fails, it fails with the cyclic-dependency error unless
\* a constructor or OnInit hook of that call has thrown, or an undeclared
\* dependency was met, before the cycle was reached; no member of a cycle is
\* ever constructed or stored.
C2_CycleNeverCompletes ==
  /\ \A p \in StartedCalls : HasCycle(p) =>
       /\ startPc[p] \in {"loop1", "await1", "failed"}
       /\ startPc[p] = "failed" /\ startErr[p].kind # "CyclicDependency" =>
            \/ /\ startErr[p].kind \in {"ConstructorFailed", "OnInitFailed"}
               /\ \E e \in ErrorLogged(p) : e.cls = startErr[p].cls
            \/ /\ startErr[p].kind = "DependencyNotRegistered"
               /\ \E a \in Classes : DependsOn(a, startErr[p].cls)
  /\ CycleMembersUntouched

\* a Start() over a mutual cycle of two declared controllers has failed with
\* the cyclic-dependency error
C2_Witness ==
  \E p \in Procs, a \in Classes, b \in Classes :
    /\ a # b /\ DependsOn(a, b) /\ DependsOn(b, a)
    /\ {a, b} \subseteq Range(sortedControllers[p])
    /\ startPc[p] = "failed" /\ startErr[p].kind = "CyclicDependency"
    /\ registeringControllers = {a, b}

FailedInHook(p) ==
  startPc[p] = "failed"
    /\ startErr[p].kind \in {"ConstructorFailed", "OnInitFailed"}
ErrorKind(e) ==
  IF e.msg = "Error in constructor" THEN "ConstructorFailed" ELSE "OnInitFailed"

\* C3 as stated: after a Start() has failed in a constructor or OnInit hook,
\* no controller declared after the failing one is in the instance table.
C3_NoLaterDeclaredInitialized ==
  \A p \in Procs : FailedInHook(p) =>
    \A c \in Declared :
      DeclIndex(c) > DeclIndex(startErr[p].cls) => ~HasInstance(c)

\* C3 amended: once a constructor or OnInit hook has thrown in a Start() call,
\* that call only propagates the error and fails with it; it constructs
\* nothing after the failing controller, which never gets an instance; all
\* the call has constructed are entries of its loadOrder traversal up to the
\* failing one and their dependencies (so a controller declared after the
\* failing one is Initialized when it has a lower loadOrder or is such a
\* dependency); Dependency() for a controller without an instance fails with
\* the not-registered error.
C3_FailureHaltsTheCall ==
  /\ \A p \in Procs : \A e \in ErrorLogged(p) :
       /\ startPc[p] \in {"await1", "failed"}
       /\ ctorLog[p] # <<>>
       /\ Last(ctorLog[p]) = e.cls
       /\ ~HasInstance(e.cls)
       /\ startPc[p] = "failed" => startErr[p] = AppLifeError(ErrorKind(e), e.cls)
       /\ Range(ctorLog[p]) \subseteq DepClosure(EntriesReached(p))
  /\ \A c \in Classes : HasInstance(c) => \E p \in Procs : c \in Range(ctorLog[p])
  /\ lastCall.op = "Dependency" /\ started /\ ~HasInstance(lastCall.cls) =>
       lastCall.result = "NotRegistered"

\* a Start() has failed in a constructor, a controller declared after the
\* failing one is Initialized, and Dependency() on another declared controller
\* has just failed with the not-registered error
C3_Witness ==
  \E p \in Procs :
    /\ FailedInHook(p)
    /\ \E c \in Declared :
         DeclIndex(c) > DeclIndex(startErr[p].cls) /\ HasInstance(c)
    /\ lastCall.op = "Dependency" /\ lastCall.result = "NotRegistered"
    /\ lastCall.cls \in Declared /\ lastCall.cls # startErr[p].cls

\* C4: a Start() call invokes an OnStart hook only when every controller it
\* traverses (those declared when it was called) is constructed, has completed
\* its OnInit hook and is in the instance table, and no constructor or OnInit
\* hook has failed in that call; a call that failed has invoked no OnStart hook.
C4_StartHooksAfterAllInitialized ==
  \A p \in Procs :
    /\ InStartPhase(p) \/ Invoked(p) # {} =>
         /\ \A d \in Range(sortedControllers[p]) : Initialized(d)
         /\ ErrorLogged(p) = {}
    /\ startPc[p] = "failed" => Invoked(p) = {}

\* an OnStart hook is running in a call that traverses all three controllers
C4_Witness ==
  \E p \in Procs :
    /\ startPc[p] = "inStart"
    /\ Len(sortedControllers[p]) = 3
    /\ initLog[p] # <<>>

WarnLogged(p, c) ==
  [sev |-> "warn", msg |-> "Error in OnStart", cls |-> c, p |-> p] \in logs

\* C5: a failed OnStart hook does not fail Start() (a call that has invoked a
\* hook never rejects), does not keep the later hooks from being invoked
\* (a call awaiting or past Promise.all has invoked the hook of every
\* controller it traverses that has one), is reported by a warning, and leaves
\* the controller's instance available to Dependency().
C5_StartHookFailureIsolated ==
  \A p \in Procs :
    /\ Invoked(p) # {} => startPc[p] # "failed"
    /\ startPc[p] \in {"awaitAll", "done"} =>
         Invoked(p) = Range(sortedControllers[p]) \cap onStartMethod
    /\ \A c \in Classes :
         /\ startTask[p][c] = "caught" =>
              /\ WarnLogged(p, c)
              /\ DependencyResult(c).result = "ok"
              /\ DependencyResult(c).value.cls = c
         /\ startPc[p] = "done" /\ c \in Invoked(p) =>
              startTask[p][c] = "resolved" \/ WarnLogged(p, c)

\* a Start() has completed although one OnStart hook failed, and another
\* hook of the same call succeeded
C5_Witness ==
  \E p \in Procs, a \in Classes, b \in Classes :
    /\ startPc[p] = "done"
    /\ startTask[p][a] = "caught" /\ startTask[p][b] = "resolved"

\* C6: a Start() call that has completed has no OnStart hook still pending
\* and no rejection still unhandled: every hook it invoked has settled.
C6_DoneOnlyAfterAllSettled ==
  \A p \in Procs : startPc[p] = "done" =>
    \A c \in Classes : startTask[p][c] \in {"none", "resolved", "caught"}

\* a Start() that invoked two OnStart hooks is waiting for a pending one
\* while the other has settled
C6_Witness ==
  \E p \in Procs, a \in Classes, b \in Classes :
    /\ startPc[p] = "awaitAll"
    /\ startTask[p][a] = "pending" /\ startTask[p][b] \in {"resolved", "caught"}

InFlightFrame(c) ==
  \E p \in Procs : \E k \in 1..Len(stack[p]) : stack[p][k].cls = c

\* C7: a call of Dependency(X) fails with the not-started error exactly when
\* no Start() has been initiated; otherwise it fails with the not-registered
\* error exactly when X has no entry in the instance table, which is the case
\* when X is undeclared, not yet constructed, or still in its constructor or
\* OnInit hook, and else it returns the stored instance.
C7_DependencyOutcome ==
  lastCall.op = "Dependency" =>
    LET c == lastCall.cls IN
      /\ lastCall.result = "NotStarted" <=> StartedCalls = {}
      /\ StartedCalls # {} =>
           /\ lastCall.result = "NotRegistered" <=> ~HasInstance(c)
           /\ lastCall.result = "ok" <=> HasInstance(c)
           /\ c \notin Declared \/ CtorCount(c) = 0 \/ InFlightFrame(c) =>
                lastCall.result = "NotRegistered"
           /\ lastCall.result = "ok" =>
                lastCall.value = [cls |-> c, n |-> 1] /\ Initialized(c)

\* Dependency(X) has just failed with the not-registered error inside X's own
\* OnInit hook
C7_Witness ==
  /\ lastCall.op = "Dependency" /\ lastCall.result = "NotRegistered"
  /\ runStack # <<>>
  /\ \E p \in Procs :
       /\ stack[p] # <<>>
       /\ Top(p).pc = "inInit" /\ Top(p).cls = lastCall.cls

\* C8: a later Start() call invokes no constructor, no OnInit hook and no
\* OnStart hook that an earlier call has invoked.
C8_SecondStartInvokesNothingAgain ==
  \A p \in Procs, q \in Procs : q < p =>
    \A c \in Classes :
      /\ ~(c \in Range(ctorLog[q]) /\ c \in Range(ctorLog[p]))
      /\ ~(c \in Range(initLog[q]) /\ c \in Range(initLog[p]))
      /\ ~(c \in Invoked(q) /\ c \in Invoked(p))

NoDependencies(p) ==
  \A c \in Range(sortedControllers[p]) : paramTypes[c] = <<>>
Before(a, b) ==
  \/ LoadOrderOf(a) < LoadOrderOf(b)
  \/ LoadOrderOf(a) = LoadOrderOf(b) /\ DeclIndex(a) < DeclIndex(b)

\* C9: when the controllers a Start() call traverses have no dependencies,
\* the call constructs them in ascending loadOrder, ties in declaration
\* order; the first call constructs, as its k-th, the controller with k-1
\* predecessors in that order, and has constructed all of them when it
\* reaches its OnStart phase.
C9_ConstructionOrder ==
  \A p \in StartedCalls : NoDependencies(p) =>
    /\ \A i \in 1..Len(ctorLog[p]) : \A j \in 1..Len(ctorLog[p]) :
         i < j => Before(ctorLog[p][i], ctorLog[p][j])
    /\ p = 1 =>
         /\ \A k \in 1..Len(ctorLog[p]) :
              Cardinality({d \in Range(sortedControllers[p]) :
                             Before(d, ctorLog[p][k])}) = k - 1
         /\ InStartPhase(p) => Len(ctorLog[p]) = Len(sortedControllers[p])

\* a call has constructed three independent controllers, two of them with
\* equal loadOrder and one out of declaration order
C9_Witness ==
  \E p \in Procs :
    /\ NoDependencies(p) /\ Len(ctorLog[p]) = 3
    /\ \E i \in 1..2 :
         LoadOrderOf(ctorLog[p][i]) = LoadOrderOf(ctorLog[p][i + 1])
    /\ \E i \in 1..2 :
         DeclIndex(ctorLog[p][i]) > DeclIndex(ctorLog[p][i + 1])

\* C10: a Controller call for an identity that is already declared fails
\* with the already-registered error and leaves the registry and the recorded
\* loadOrder as they were; no step removes or reorders a declaration or
\* changes a recorded loadOrder.
C10_DuplicateDeclarationRejected ==
  [][ /\ lastCall'.op = "Controller" /\ lastCall'.cls \in Declared =>
           /\ lastCall'.result = "AlreadyRegistered"
           /\ controllerRegistry' = controllerRegistry
           /\ loadOrderMap' = loadOrderMap
      /\ Len(controllerRegistry') >= Len(controllerRegistry)
      /\ SubSeq(controllerRegistry', 1, Len(controllerRegistry)) = controllerRegistry
      /\ \A c \in Declared : loadOrderMap'[c] = loadOrderMap[c]
    ]_vars

\* a declared controller has just been declared again and rejected
C10_Witness ==
  /\ lastCall.op = "Controller" /\ lastCall.result = "AlreadyRegistered"
  /\ lastCall.cls \in Declared

\* the in-flight mark of c is left behind: no invocation of registerController
\* is working on c, and c has never been constructed
Working(c) ==
  \E p \in Procs : \E k \in 1..Len(stack[p]) :
    stack[p][k].cls = c /\ stack[p][k].pc # "entry"
Abandoned(c) ==
  /\ c \in registeringControllers /\ ~Working(c)
  /\ CtorCount(c) = 0 /\ ~HasInstance(c)
AtDependency(p) ==
  /\ Running(p) /\ stack[p] # <<>>
  /\ IF stack[p] # <<>>
       THEN Top(p).pc = "deps" /\ Top(p).i <= Len(paramTypes[Top(p).cls])
       ELSE FALSE
UndeclaredDependencies(a) == Range(paramTypes[a]) \ Declared

MembersOf(modules, j) ==
  IF modules[j] \in DOMAIN moduleRegistry THEN moduleRegistry[modules[j]] ELSE <<>>
MemberMissing(modules, j, k) == MembersOf(modules, j)[k] \notin Declared
AnyMemberMissing(modules) ==
  \E j \in 1..Len(modules) : \E k \in 1..Len(MembersOf(modules, j)) :
    MemberMissing(modules, j, k)
\* nothing is wrong with the modules before number j
CleanBefore(modules, j) ==
  \A i \in 1..(j - 1) :
    /\ modules[i] \in DOMAIN moduleRegistry
    /\ \A k \in 1..Len(MembersOf(modules, i)) : ~MemberMissing(modules, i, k)
\* member k of module j is the first undeclared member in list order
FirstMissingAt(modules, j, k) ==
  /\ MemberMissing(modules, j, k)
  /\ \A i \in 1..(j - 1) : \A h \in 1..Len(MembersOf(modules, i)) :
       ~MemberMissing(modules, i, h)
  /\ \A h \in 1..(k - 1) : ~MemberMissing(modules, j, h)

\* C12 as stated: a LoadModules call that succeeds has found every member of
\* every listed module declared; if a member is not declared the call fails
\* with the error naming the first such member in list order.
C12_NamesFirstMissingMember ==
  lastCall.op = "LoadModules" =>
    LET modules == lastCall.modules IN
      /\ lastCall.result = "ok" => ~AnyMemberMissing(modules)
      /\ AnyMemberMissing(modules) =>
           /\ lastCall.result = "ControllerNotRegistered"
           /\ \E j \in 1..Len(modules) : \E k \in 1..Len(MembersOf(modules, j)) :
                /\ FirstMissingAt(modules, j, k)
                /\ lastCall.cls = MembersOf(modules, j)[k]

\* C12 amended: LoadModules succeeds exactly when every listed module is
\* registered via Module and every member of every listed module is declared;
\* otherwise it fails at the first offending module in list order, with the
\* error naming that module when it is not registered, else with the error
\* naming its first undeclared member; in every case the call leaves the
\* controller registry, the loadOrder map, the instance table, the in-flight
\* set, the started flag and the module registry as they were and runs no
\* constructor and no hook.
C12_LoadModulesOutcome ==
  [][lastCall'.op = "LoadModules" =>
       LET modules == lastCall'.modules IN
         /\ core' = core /\ moduleRegistry' = moduleRegistry
         /\ hist' = hist /\ calls' = calls
         /\ lastCall'.result = "ok" <=>
              /\ CleanBefore(modules, Len(modules) + 1)
         /\ lastCall'.result = "ModuleNotRegistered" <=>
              \E j \in 1..Len(modules) :
                /\ CleanBefore(modules, j)
                /\ modules[j] \notin DOMAIN moduleRegistry
                /\ lastCall'.cls = modules[j]
         /\ lastCall'.result = "ControllerNotRegistered" <=>
              \E j \in 1..Len(modules) : \E k \in 1..Len(MembersOf(modules, j)) :
                /\ CleanBefore(modules, j)
                /\ \A h \in 1..(k - 1) : ~MemberMissing(modules, j, h)
                /\ MemberMissing(modules, j, k)
                /\ lastCall'.cls = MembersOf(modules, j)[k]
         /\ lastCall'.result \in {"ok", "ModuleNotRegistered", "ControllerNotRegistered"}
   ]_vars

\* LoadModules, called after a Start() that failed and left a controller in
\* the in-flight set, has just failed naming the first of the two undeclared
\* members of a listed module
C12_Witness ==
  /\ lastCall.op = "LoadModules" /\ lastCall.result = "ControllerNotRegistered"
  /\ Len(lastCall.modules) = 2
  /\ \E j \in 1..2 :
       LET members == MembersOf(lastCall.modules, j) IN
         /\ Len(members) = 2
         /\ lastCall.cls = members[1]
         /\ members[2] \notin Declared
  /\ \E p \in Procs : startPc[p] = "failed"
  /\ registeringControllers # {} /\ started

\* C13: the instance table holds, per identity, at most one entry, which is
\* the one instance ever constructed for it; no step removes an entry or
\* replaces the instance of an entry, whatever declarations, Start() calls
\* (sequential or overlapping) and Dependency() calls are made.
C13_InstanceTableImmutable ==
  [][ /\ \A c \in DOMAIN controllerInstances :
           /\ c \in DOMAIN controllerInstances'
           /\ controllerInstances'[c] = controllerInstances[c]
      /\ \A c \in DOMAIN controllerInstances' :
           /\ controllerInstances'[c].cls = c
           /\ controllerInstances'[c].n = 1
           /\ c \in Declared'
    ]_vars

\* a second Start() has completed over a controller that the first call
\* constructed and stored, without constructing it
C13_Witness ==
  \E p \in Procs, q \in Procs, c \in Classes :
    /\ q < p /\ startPc[p] = "done" /\ startPc[q] = "done"
    /\ c \in Range(ctorLog[q]) /\ c \in Range(sortedControllers[p])
    /\ c \in DOMAIN controllerInstances
    /\ lastCall.op = "Dependency" /\ lastCall.cls = c /\ lastCall.result = "ok"

\* C14: a call of Dependency(X), whether it returns an instance or fails,
\* invokes no constructor and no hook and leaves the controller registry, the
\* loadOrder map, the instance table, the in-flight set and the started flag
\* unchanged, as well as every Start() call in progress and the queue of
\* pending reactions; what it returns is the stored instance.
C14_DependencyIsPureLookup ==
  [][lastCall'.op = "Dependency" =>
       /\ controllerRegistry' = controllerRegistry
       /\ loadOrderMap' = loadOrderMap
       /\ controllerInstances' = controllerInstances
       /\ registeringControllers' = registeringControllers
       /\ started' = started
       /\ ctorLog' = ctorLog /\ initLog' = initLog /\ initDone' = initDone
       /\ startLog' = startLog
       /\ startTask' = startTask /\ logs' = logs
       /\ calls' = calls /\ sched' = sched
       /\ lastCall'.result = "ok" =>
            /\ lastCall'.cls \in DOMAIN controllerInstances
            /\ lastCall'.value = controllerInstances[lastCall'.cls]
   ]_vars

\* inside a constructor, during Start(), Dependency() has just failed for the
\* controller under construction, while another controller is already stored
C14_Witness ==
  /\ lastCall.op = "Dependency" /\ lastCall.result = "NotRegistered"
  /\ lastCall.cls \in registeringControllers
  /\ controllerInstances # <<>>
  /\ \E p \in Procs :
       /\ Running(p)
       /\ IF stack[p] # <<>>
            THEN Top(p).pc = "inCtor" /\ Top(p).cls = lastCall.cls
            ELSE FALSE

\* a constructor or OnInit hook of call p has failed
HookFailed(p) ==
  \/ ErrorLogged(p) # {}
  \/ IF stack[p] # <<>> THEN Top(p).pc = "awaitInit" /\ ~ret[p].ok ELSE FALSE

\* C15: once a constructor or OnInit hook has failed inside a Start() call,
\* that call invokes no further constructor, no further OnInit hook and no
\* OnStart hook, for no controller (neither the dependents up the resolution
\* chain nor the controllers later in its traversal), and stores no instance;
\* the error is written at error severity once, for the failing controller,
\* and the call ends failed with that error.
C15_FailureIsFatalForTheCall ==
  [][\A p \in Procs :
       /\ HookFailed(p) =>
            /\ HookFailed(p)'
            /\ ctorLog'[p] = ctorLog[p]
            /\ initLog'[p] = initLog[p]
            /\ \A c \in Range(ctorLog[p]) :
                 c \in DOMAIN controllerInstances' => c \in DOMAIN controllerInstances
       /\ HookFailed(p)' =>
            /\ startPc'[p] \in {"await1", "failed"}
            /\ Invoked(p)' = {}
            /\ Cardinality(ErrorLogged(p)') <= 1
            /\ \A e \in ErrorLogged(p)' :
                 /\ e.cls = Last(ctorLog'[p])
                 /\ startPc'[p] = "failed" =>
                      startErr'[p] = AppLifeError(ErrorKind(e), e.cls)
            /\ startPc'[p] = "failed" => ErrorLogged(p)' # {}
    ]_vars

\* a Start() has failed in the OnInit hook of a dependency: its dependent and
\* a controller later in the traversal have not been constructed
C15_Witness ==
  \E p \in Procs, a \in Classes, d \in Classes :
    /\ startPc[p] = "failed" /\ startErr[p].kind = "OnInitFailed"
    /\ a # d
    /\ DependsOn(a, startErr[p].cls) /\ a = sortedControllers[p][idx[p]]
    /\ \E k \in (idx[p] + 1)..Len(sortedControllers[p]) :
         d = sortedControllers[p][k] /\ d # startErr[p].cls
    /\ CtorCount(a) = 0 /\ CtorCount(d) = 0

\* no controller class depends on itself, directly or through others
Acyclic == \A c \in Classes : c \notin DepClosure(Range(paramTypes[c]))

\* C16: with an acyclic dependency graph no Start() call fails with the
\* cyclic-dependency error, whether it was made after an earlier Start() had
\* failed or while an earlier Start() is still waiting for an OnInit hook.
C16_NoCyclicErrorWithoutCycle ==
  Acyclic => \A p \in Procs : startErr[p].kind # "CyclicDependency"

Hung(p) == {c \in Classes : startTask[p][c] = "pending"}
PositionIn(s, c) == CHOOSE k \in 1..Len(s) : s[k] = c

\* C17: while an OnStart hook of a Start() call is pending, the call has not
\* completed and has not failed, but it is not held up before Promise.all:
\* in its second loop it goes on to the next controller, at Promise.all it has
\* invoked the hook of every controller it traverses that has one, and every
\* other pending hook of the call can still be settled.
C17_HungHookStallsOnlyStart ==
  \A p \in Procs : Hung(p) # {} =>
    /\ startPc[p] \in {"loop2", "inStart", "awaitAll"}
    /\ startPc[p] = "loop2" /\ Running(p) => ENABLED StartHooksNext(p)
    /\ startPc[p] = "awaitAll" =>
         Invoked(p) = Range(sortedControllers[p]) \cap onStartMethod
    /\ \A c \in Hung(p) : UserCodeCanRun =>
         ENABLED OnStartSettles(p, c, TRUE) /\ ENABLED OnStartSettles(p, c, FALSE)

\* nothing is left to run: a Start() is stalled at Promise.all by the pending
\* hook it invoked first, and the hook it invoked after that one has settled
C17_Witness ==
  \E p \in Procs, a \in Classes, b \in Classes :
    /\ startPc[p] = "awaitAll" /\ runStack = <<>> /\ microtasks = <<>>
    /\ Hung(p) = {a} /\ startTask[p][b] \in {"resolved", "caught"}
    /\ PositionIn(sortedControllers[p], a) < PositionIn(sortedControllers[p], b)

\* C18: in a program with an acyclic dependency graph whose controllers are
\* all declared, with their dependencies, before Start() is called once, and
\* whose constructors and hooks end (only OnStart hooks may fail), the call
\* eventually completes; when it has completed, every declared controller is
\* in the instance table, each constructor has been invoked exactly once,
\* each OnInit hook exactly once and each OnStart hook exactly once.
C18_SingleStartCompletes ==
  /\ (startPc[1] = "loop1") ~> (startPc[1] = "done")
  /\ [](startPc[1] = "done" =>
          \A c \in Declared :
            /\ HasInstance(c)
            /\ CtorCount(c) = 1
            /\ InitCount(c) = (IF c \in onInitMethod THEN 1 ELSE 0)
            /\ StartCount(c) = (IF c \in onStartMethod THEN 1 ELSE 0)
            /\ Settled(startTask[1][c]))

\* the call has completed over three controllers with dependencies, after an
\* OnStart hook failed and an OnInit hook had returned a pending promise
C18_Witness ==
  /\ startPc[1] = "done" /\ Len(controllerRegistry) = 3
  /\ paramTypes.A # <<>>
  /\ \E c \in Classes : startTask[1][c] = "caught"
  /\ \E c \in Classes : startTask[1][c] = "resolved"

\* an OnStart hook of call p is executing: in its synchronous part, or
\* waiting for the promise it returned
InOnStart(p) == {c \in Classes : startTask[p][c] \in {"running", "pending"}}

\* C19: while an OnStart hook of a Start() call is executing, Dependency(X)
\* succeeds for every controller X that was declared when Start() was called,
\* returning the one Initialized instance of X; this holds at every
\* interleaving of the hooks of the call, as every such X is in the instance
\* table from before the first hook is invoked.
C19_DependencyAvailableInOnStart ==
  /\ \A p \in Procs : InOnStart(p) # {} \/ startLog[p] # <<>> =>
       \A x \in Range(sortedControllers[p]) :
         /\ DependencyResult(x).result = "ok"
         /\ DependencyResult(x).value = [cls |-> x, n |-> 1]
         /\ Initialized(x)
  /\ lastCall.op = "Dependency" =>
       \A p \in Procs :
         InOnStart(p) # {} /\ lastCall.cls \in Range(sortedControllers[p]) =>
           lastCall.result = "ok" /\ lastCall.value.cls = lastCall.cls

\* inside an OnStart hook, while an earlier hook of the call is pending,
\* Dependency() has just returned a controller whose own hook is yet to be
\* invoked
C19_Witness ==
  \E p \in Procs :
    /\ Running(p) /\ startPc[p] = "inStart"
    /\ \E c \in Classes : startTask[p][c] = "pending"
    /\ lastCall.op = "Dependency" /\ lastCall.result = "ok"
    /\ lastCall.cls \in Range(sortedControllers[p])
    /\ lastCall.cls \notin Range(startLog[p])

\* C20: over all Start() calls, sequential or overlapping, the constructor of
\* a controller is invoked at most once and its OnInit hook at most once, and
\* only after its constructor; a controller whose constructor or OnInit hook
\* has failed has been constructed once, has no instance and stays in the
\* in-flight set, so that no later Start() constructs it again.
C20_ConstructedAtMostOnce ==
  /\ \A c \in Classes :
       /\ CtorCount(c) <= 1
       /\ InitCount(c) <= CtorCount(c)
       /\ InitCount(c) = 1 => c \in onInitMethod
  /\ \A e \in logs : e.sev = "error" =>
       /\ CtorCount(e.cls) = 1
       /\ ~HasInstance(e.cls)
       /\ e.cls \in registeringControllers

\* a second Start() over a controller whose constructor failed in the first
\* Start() has ended without constructing it again
C20_Witness ==
  \E c \in Classes :
    /\ startPc[1] = "failed" /\ startErr[1] = AppLifeError("ConstructorFailed", c)
    /\ startPc[2] = "failed" /\ c = sortedControllers[2][idx[2]]
    /\ ctorLog[2] # <<>> /\ c \notin Range(ctorLog[2])

====
